---------------------------- MODULE Spec2Model ----------------------------
(***************************************************************************)
(* Model of the Wikipedia chatbot of src/main.py: the tool adapters        *)
(* (search_wikipedia, get_current_time), the process-wide conversation     *)
(* memory, the turn get_chat_response with the agent executor's            *)
(* Think/Act/Observe loop and the direct-completion fallback, the /chat    *)
(* request handler that calls it, and the accounts and sessions of         *)
(* /register, /login and /logout.                                          *)
(*                                                                         *)
(* Texts are sequences of one-character strings, so that lower(),          *)
(* substring tests, prefixes, re.sub and strip() are computed, not         *)
(* assumed.                                                                *)
(***************************************************************************)
EXTENDS Integers, Sequences, FiniteSets, TLC

VARIABLES
    messages,       \* memory.chat_memory.messages: the process-wide store
    session,        \* per client: session["username"], or NoUser
    pc,             \* per client: where its /chat request is in the code
    user_input,     \* per client: argument of get_chat_response
    chat_history,   \* per client: what prep_inputs loaded from the memory
    iterations,     \* per client: AgentExecutor._call's iteration counter
    observation,    \* per client: observation of the latest loop step
    output,         \* per client: response["output"] of the executor
    loop_end,       \* per client: how the executor's loop ended in this turn
    ai_appended,    \* per client: assistant messages appended in this turn
    direct_prompts, \* per client: prompts given to llm.predict in this turn
    fallback_response, \* per client: the direct completion's text, once got
    last_reply,     \* per client: kind of the LLM's latest reply in the loop
    unparsable_run, \* per client: unparsable replies so far, if the loop has
                    \* seen nothing else; otherwise -1
    llm_replies,    \* the replies the agent's LLM may give in this run
    users,          \* rows of the table users of chatbot_users.db
    login_ok,       \* per client: its session's username comes from a login
                    \* with a registered username and its password
    resp,           \* per client: HTTP response on its way to the client
    turns_left,     \* turns the run may still start
    workers,        \* requests the server may serve at the same time
    now,            \* system clock: minutes since 1970-01-01 00:00 UTC
    host_tz,        \* per host: local timezone offset in minutes
    clock_out,      \* per host: last result of get_current_time
    wiki_call       \* last direct call of search_wikipedia, with its result

vars == <<messages, session, pc, user_input, chat_history, iterations,
          observation, output, loop_end, ai_appended, direct_prompts,
          fallback_response, last_reply, unparsable_run, llm_replies, users,
          login_ok, resp, turns_left, workers, now, host_tz, clock_out,
          wiki_call>>

-----------------------------------------------------------------------------
(* Bounds of the model *)

\* turns a run of Spec may start
MaxTurns == 4
\* turns a run of SpecConc may start
MaxConcTurns == 2
\* turns a run of SpecLive may start
MaxLiveTurns == 1
\* clock ticks of SpecClock
MaxTicks == 40
\* minutes per clock tick of SpecClock
TickMinutes == 45
\* first instant of SpecClock: 2024-12-31 20:00 UTC, in minutes since the epoch
ClockStart == 28927920
\* longest query given to search_wikipedia in SpecTools
MaxQueryLen == 3
MaxWebTurns == 2

-----------------------------------------------------------------------------
(* Program constants *)

\* ConversationBufferWindowMemory(k=5)
k == 5
\* AgentExecutor(max_iterations=20)
max_iterations == 20
\* timedelta(hours=-5)
est_offset_hours == -5
sentences == 2

ErrorText == <<"S", "o", "r", "r", "y", ",", " ", "I", " ", "e", "n", "c", "o", "u", "n", "t", "e", "r", "e", "d", " ", "a", "n", " ", "e", "r", "r", "o", "r", " ", "w", "h", "i", "l", "e", " ", "p", "r", "o", "c", "e", "s", "s", "i", "n", "g", " ", "y", "o", "u", "r", " ", "r", "e", "q", "u", "e", "s", "t", ".">>
\* AgentExecutor's answer when the loop stops at max_iterations
\* (early_stopping_method "force")
StoppedText == <<"A", "g", "e", "n", "t", " ", "s", "t", "o", "p", "p", "e", "d", " ", "d", "u", "e", " ", "t", "o", " ", "i", "t", "e", "r", "a", "t", "i", "o", "n", " ", "l", "i", "m", "i", "t", " ", "o", "r", " ", "t", "i", "m", "e", " ", "l", "i", "m", "i", "t", ".">>
IterationLimit == <<"i", "t", "e", "r", "a", "t", "i", "o", "n", " ", "l", "i", "m", "i", "t">>
FallbackPrefix == <<"P", "r", "o", "v", "i", "d", "e", " ", "a", "n", " ", "a", "n", "s", "w", "e", "r", " ", "t", "o", ":", " ">>
MultiplePrefix == <<"M", "u", "l", "t", "i", "p", "l", "e", " ", "r", "e", "s", "u", "l", "t", "s", " ", "f", "o", "u", "n", "d", ":", " ">>
NoResultsText == <<"N", "o", " ", "r", "e", "s", "u", "l", "t", "s", " ", "f", "o", "u", "n", "d", " ", "o", "n", " ", "W", "i", "k", "i", "p", "e", "d", "i", "a", ".">>
ErrorPrefix == <<"E", "r", "r", "o", "r", ":", " ">>
InternalPrefix == <<"I", "n", "t", "e", "r", "n", "a", "l", " ", "s", "e", "r", "v", "e", "r", " ", "e", "r", "r", "o", "r", ":", " ">>
UnauthorizedText == <<"U", "n", "a", "u", "t", "h", "o", "r", "i", "z", "e", "d">>
NoInputText == <<"N", "o", " ", "i", "n", "p", "u", "t", " ", "p", "r", "o", "v", "i", "d", "e", "d">>
WikipediaName == <<"W", "i", "k", "i", "p", "e", "d", "i", "a">>
TimeName == <<"T", "i", "m", "e">>
\* InvalidTool's observation: "<name> is not a valid tool, try one of [...]."
InvalidToolSuffix == <<" ", "i", "s", " ", "n", "o", "t", " ", "a", " ", "v", "a", "l", "i", "d", " ", "t", "o", "o", "l", ",", " ", "t", "r", "y", " ", "o", "n", "e", " ", "o", "f", " ", "[", "W", "i", "k", "i", "p", "e", "d", "i", "a", ",", " ", "T", "i", "m", "e", "]", ".">>
\* the observation handle_parsing_errors=True gives for an unparsable reply
LimitReachedText == <<"I", "t", "e", "r", "a", "t", "i", "o", "n", " ", "l", "i", "m", "i", "t", " ", "r", "e", "a", "c", "h", "e", "d", ".">>
InvalidLoginText == <<"I", "n", "v", "a", "l", "i", "d", " ", "u", "s", "e", "r", "n", "a", "m", "e", " ", "o", "r", " ", "p", "a", "s", "s", "w", "o", "r", "d">>
UsernameExistsText == <<"U", "s", "e", "r", "n", "a", "m", "e", " ", "a", "l", "r", "e", "a", "d", "y", " ", "e", "x", "i", "s", "t", "s">>
ParseErrorText == <<"I", "n", "v", "a", "l", "i", "d", " ", "o", "r", " ", "i", "n", "c", "o", "m", "p", "l", "e", "t", "e", " ", "r", "e", "s", "p", "o", "n", "s", "e">>

-----------------------------------------------------------------------------
(* Texts: str.lower() and the `in` substring test *)

UpperLetters == <<"A", "B", "C", "D", "E", "F", "G", "H", "I", "J", "K", "L", "M", "N", "O", "P", "Q", "R", "S", "T", "U", "V", "W", "X", "Y", "Z">>
LowerLetters == <<"a", "b", "c", "d", "e", "f", "g", "h", "i", "j", "k", "l", "m", "n", "o", "p", "q", "r", "s", "t", "u", "v", "w", "x", "y", "z">>
Digits == <<"0", "1", "2", "3", "4", "5", "6", "7", "8", "9">>
Whitespace == {" ", "\t", "\n"}

IsIn(ch, seq) == \E i \in 1..Len(seq) : seq[i] = ch

LowerChar(ch) ==
    IF IsIn(ch, UpperLetters)
    THEN LowerLetters[CHOOSE i \in 1..Len(UpperLetters) : UpperLetters[i] = ch]
    ELSE ch

Lower(s) == [i \in 1..Len(s) |-> LowerChar(s[i])]

Contains(hay, needle) ==
    \E i \in 0..(Len(hay) - Len(needle)) :
        SubSeq(hay, i + 1, i + Len(needle)) = needle

-----------------------------------------------------------------------------
(* Values that cross the program's boundaries *)

\* a JSON value: a string, an object (with the text str() gives it), or null
JStr(s) == [t |-> "str", s |-> s]
JObj(s) == [t |-> "obj", s |-> s]
JNull == [t |-> "null", s |-> <<>>]

\* Python truthiness of a JSON value: `not user_input` is its negation
Truthy(v) ==
    CASE v.t = "str" -> v.s # <<>>
      [] v.t = "obj" -> v.s # <<"{", "}">>
      [] OTHER -> FALSE

\* str(v), as an f-string formats it
Str(v) == IF v.t = "null" THEN <<"N", "o", "n", "e">> ELSE v.s

\* the outcome of a call: a returned value or a raised exception
Return(v) == [raised |-> FALSE, cls |-> "", value |-> v]
Raise(cls, msg) == [raised |-> TRUE, cls |-> cls, value |-> msg]

\* classes derived from Exception, which `except Exception` catches
ExceptionClasses ==
    {"DisambiguationError", "PageError", "HTTPTimeoutError", "TypeError",
     "AttributeError", "ValueError", "ValidationError", "APIConnectionError"}

-----------------------------------------------------------------------------
(* Tool adapter: search_wikipedia *)

\* [^a-zA-Z0-9\s]: the characters re.sub deletes are those not kept here
Kept(ch) ==
    \/ IsIn(ch, LowerLetters)
    \/ IsIn(ch, UpperLetters)
    \/ IsIn(ch, Digits)
    \/ ch \in Whitespace

\* re.sub(r'[^a-zA-Z0-9\s]', '', query)
ReSub(s) == SelectSeq(s, Kept)

RECURSIVE LStrip(_)
LStrip(s) ==
    IF s # <<>> /\ Head(s) \in Whitespace THEN LStrip(Tail(s)) ELSE s

RECURSIVE RStrip(_)
RStrip(s) ==
    IF s # <<>> /\ s[Len(s)] \in Whitespace
    THEN RStrip(SubSeq(s, 1, Len(s) - 1))
    ELSE s

\* str.strip()
\* lstrip() in the place of strip()
strip_left_only(s) == LStrip(s)

Strip(s) == RStrip(LStrip(s))

\* sanitized_query of line 47; re.sub raises TypeError on a non-string
ReSubMsg == <<"e", "x", "p", "e", "c", "t", "e", "d", " ", "s", "t", "r", "i", "n", "g", " ", "o", "r", " ", "b", "y", "t", "e", "s", "-", "l", "i", "k", "e", " ", "o", "b", "j", "e", "c", "t">>
sanitized_query(query) ==
    IF query.t = "str"
    THEN Return(Strip(ReSub(query.s)))
    ELSE Raise("TypeError", ReSubMsg)

\* wikipedia.summary(sanitized_query, sentences=2): what the knowledge source
\* answers is the environment's choice src
summary(q, src) ==
    IF src.kind = "summary" THEN Return(src.text) ELSE Raise(src.kind, src.text)

\* the try body of search_wikipedia, lines 47-48
search_wikipedia_try(query, src) ==
    LET sq == sanitized_query(query)
    IN  IF sq.raised THEN sq ELSE summary(sq.value, src)

\* the except clauses with the catch-all in the first place
search_wikipedia_catch_all_first(query, src) ==
    LET r == search_wikipedia_try(query, src)
    IN  IF ~r.raised THEN r
        ELSE IF r.cls \in ExceptionClasses THEN Return(ErrorPrefix \o r.value)
        ELSE IF r.cls = "DisambiguationError"
             THEN Return(MultiplePrefix \o r.value)
        ELSE IF r.cls = "PageError" THEN Return(NoResultsText)
        ELSE r

\* the except clauses of lines 49-54 without the last one
search_wikipedia_no_catch_all(query, src) ==
    LET r == search_wikipedia_try(query, src)
    IN  IF ~r.raised THEN r
        ELSE IF r.cls = "DisambiguationError"
             THEN Return(MultiplePrefix \o r.value)
        ELSE IF r.cls = "PageError" THEN Return(NoResultsText)
        ELSE r

\* search_wikipedia, lines 45-54
search_wikipedia(query, src) ==
    LET r == search_wikipedia_try(query, src)
    IN  IF ~r.raised THEN r
        ELSE IF r.cls = "DisambiguationError"
             THEN Return(MultiplePrefix \o r.value)
        ELSE IF r.cls = "PageError" THEN Return(NoResultsText)
        ELSE IF r.cls \in ExceptionClasses THEN Return(ErrorPrefix \o r.value)
        ELSE r

\* the queries search_wikipedia sends to the knowledge source in one call
queries_sent(query) ==
    LET sq == sanitized_query(query)
    IN  IF sq.raised
        THEN <<>>
        ELSE <<[title |-> sq.value, sentences |-> sentences]>>

\* what the knowledge source may answer
SummaryText == <<"P", "a", "r", "i", "s", ".", " ", "F", "r", ".">>
Sources ==
    {[kind |-> "summary", text |-> SummaryText],
     [kind |-> "DisambiguationError", text |-> <<"A", "\n", "B">>],
     [kind |-> "PageError", text |-> <<"x">>],
     [kind |-> "HTTPTimeoutError", text |-> <<"t", "i", "m", "e", "o", "u", "t">>]}

-----------------------------------------------------------------------------
(* Tool adapter: get_current_time *)

\* timedelta(hours=-5), in minutes
est_offset == est_offset_hours * 60

\* date of a day number (days since 1970-01-01), as datetime computes it
CivilFromDays(days) ==
    LET z == days + 719468
        era == z \div 146097
        doe == z - era * 146097
        yoe == (doe - doe \div 1460 + doe \div 36524 - doe \div 146096) \div 365
        doy == doe - (365 * yoe + yoe \div 4 - yoe \div 100)
        mp == (5 * doy + 2) \div 153
        d == doy - (153 * mp + 2) \div 5 + 1
        m == IF mp < 10 THEN mp + 3 ELSE mp - 9
        y == yoe + era * 400 + (IF m <= 2 THEN 1 ELSE 0)
    IN  [year |-> y, month |-> m, day |-> d]

\* datetime.now(): the naive local time of the host
datetime_now_naive(t, offset, host_offset) ==
    LET local == t + host_offset
        date == CivilFromDays(local \div 1440)
    IN  [year |-> date.year, month |-> date.month, day |-> date.day,
         hour |-> (local % 1440) \div 60, minute |-> local % 60]

\* datetime.now(tz): the instant t in the zone at `offset` minutes from UTC;
\* the host's own zone plays no part
datetime_now(t, offset, host_offset) ==
    LET local == t + offset
        date == CivilFromDays(local \div 1440)
    IN  [year |-> date.year, month |-> date.month, day |-> date.day,
         hour |-> (local % 1440) \div 60, minute |-> local % 60]

Digit(n) == Digits[n + 1]
Pad2(n) == <<Digit((n \div 10) % 10), Digit(n % 10)>>
Pad4(n) == <<Digit((n \div 1000) % 10), Digit((n \div 100) % 10)>> \o Pad2(n % 100)

\* %I: the hour on the 12-hour clock
Hour12(h) == IF h % 12 = 0 THEN 12 ELSE h % 12

\* now.strftime("%Y-%m-%d %I:%M %p")
strftime(dt) ==
    Pad4(dt.year) \o <<"-">> \o Pad2(dt.month) \o <<"-">> \o Pad2(dt.day)
    \o <<" ">> \o Pad2(Hour12(dt.hour)) \o <<":">> \o Pad2(dt.minute)
    \o <<" ">> \o (IF dt.hour < 12 THEN <<"A", "M">> ELSE <<"P", "M">>)

\* get_current_time, lines 57-61, on a host whose local zone is host_offset
get_current_time(t, host_offset) ==
    strftime(datetime_now(t, est_offset, host_offset))

-----------------------------------------------------------------------------
(* The process-wide conversation memory, lines 83-87 *)

Clients == {"c1", "c2"}
Hosts == {"h1", "h2"}
\* the host the server process runs on
ServerHost == "h1"
NoUser == "<none>"

\* HumanMessage / AIMessage; `by` records the client whose turn appended the
\* message and `user` the username of its session at that moment (the program
\* keeps no such fields: the memory is not keyed)
HumanMessage(content, c) ==
    [type |-> "human", content |-> content, by |-> c, user |-> session[c]]
AIMessage(content, c) ==
    [type |-> "ai", content |-> content, by |-> c, user |-> session[c]]

\* an unwindowed buffer (ConversationBufferMemory): every stored message
buffer_unwindowed(msgs) == msgs

\* ConversationBufferWindowMemory.load_memory_variables:
\* chat_memory.messages[-k * 2:] if k > 0 else []
buffer_as_messages(msgs) ==
    IF k > 0
    THEN IF Len(msgs) > 2 * k
         THEN SubSeq(msgs, Len(msgs) - 2 * k + 1, Len(msgs))
         ELSE msgs
    ELSE <<>>

-----------------------------------------------------------------------------
(* The completion service and the agent executor, lines 80 and 89-103 *)

AnswerText == <<"P", "a", "r", "i", "s">>
\* a final answer that happens to mention the limit, in mixed case
DegenerateText == <<"I", "T", "E", "R", "A", "T", "I", "O", "N", " ", "L", "i", "m", "i", "t", "!">>
DirectText == <<"d", "i", "r", "e", "c", "t">>
QueryText == <<"P", "a", "r", "i", "s", "?">>
UnknownToolName == <<"S", "e", "a", "r", "c", "h">>
UpstreamMessages == {<<"4", "0", "1">>, <<"4", "2", "9">>}

\* what the completion service may answer to a Think prompt: a final answer,
\* an action naming a tool, a reply that does not parse, or a failed call
LLMReplies ==
    {[kind |-> "final", tool |-> <<>>, text |-> t] : t \in {AnswerText, DegenerateText}}
    \cup {[kind |-> "action", tool |-> n, text |-> QueryText] :
            n \in {WikipediaName, TimeName, UnknownToolName}}
    \cup {[kind |-> "unparsable", tool |-> <<>>, text |-> <<>>]}
    \cup {[kind |-> "error", tool |-> <<>>, text |-> <<"4", "2", "9">>]}

\* what llm.predict may do: return a text or raise
DirectOutcomes ==
    {Return(DirectText)}
    \cup {Raise("APIConnectionError", m) : m \in UpstreamMessages}

\* the tool registry, lines 70-74
ToolNames == {WikipediaName, TimeName}

\* a loop that checks its budget one step late
should_continue_late(n) == n <= max_iterations

\* AgentExecutor._should_continue: iterations < max_iterations
should_continue(n) == n < max_iterations

\* a tool table that is indexed without a check
tool_run_unchecked(name, input, src, t, host_offset) ==
    IF name = WikipediaName THEN search_wikipedia(JStr(input), src)
    ELSE IF name = TimeName THEN Return(get_current_time(t, host_offset))
    ELSE Raise("KeyError", name)

\* the observation of one Act step: the tool's text, or InvalidTool's
tool_run(name, input, src, t, host_offset) ==
    IF name \notin ToolNames THEN Return(name \o InvalidToolSuffix)
    ELSE IF name = WikipediaName THEN search_wikipedia(JStr(input), src)
    ELSE Return(get_current_time(t, host_offset))

-----------------------------------------------------------------------------
(* HTTP responses of the /chat handler *)

NoExc == Return(<<>>)
NoResp == [status |-> 0, key |-> "", body |-> <<>>, cause |-> NoExc, turn |-> FALSE]
Response(status, key, body, cause, turn) ==
    [status |-> status, key |-> key, body |-> body, cause |-> cause, turn |-> turn]

\* request.get_json(): an object with or without "input", or a JSON value
\* that has no .get (null, a list)
NoneTypeMsg == <<"'", "N", "o", "n", "e", "T", "y", "p", "e", "'", " ", "h", "a", "s", " ", "n", "o", " ", "'", "g", "e", "t", "'">>
ListMsg == <<"'", "l", "i", "s", "t", "'", " ", "h", "a", "s", " ", "n", "o", " ", "'", "g", "e", "t", "'">>
UtteranceText == <<"h", "i">>
\* str() of the JSON object {"a": 1}
ObjectText == <<"{", "'", "a", "'", ":", " ", "1", "}">>
Bodies ==
    {[json |-> "object", input |-> v] :
        v \in {JStr(UtteranceText), JStr(<<>>), JNull, JObj(ObjectText)}}
    \cup {[json |-> "null", input |-> JNull], [json |-> "list", input |-> JNull]}

\* request.get_json().get("input")
get_input(body) ==
    CASE body.json = "object" -> Return(body.input)
      [] body.json = "null" -> Raise("AttributeError", NoneTypeMsg)
      [] OTHER -> Raise("AttributeError", ListMsg)

\* the requests being served: accepted and not yet answered and delivered
InFlight == {c \in Clients : pc[c] # "idle" \/ resp[c] # NoResp}

\* the loop has not been given a reply
NoReply == [kind |-> "none", tool |-> <<>>]

\* the per-turn bookkeeping of client c starts afresh
FreshTurn(c) ==
    /\ chat_history' = [chat_history EXCEPT ![c] = <<>>]
    /\ iterations' = [iterations EXCEPT ![c] = 0]
    /\ observation' = [observation EXCEPT ![c] = <<>>]
    /\ output' = [output EXCEPT ![c] = <<>>]
    /\ loop_end' = [loop_end EXCEPT ![c] = "none"]
    /\ ai_appended' = [ai_appended EXCEPT ![c] = 0]
    /\ direct_prompts' = [direct_prompts EXCEPT ![c] = <<>>]
    /\ fallback_response' = [fallback_response EXCEPT ![c] = JNull]
    /\ last_reply' = [last_reply EXCEPT ![c] = NoReply]
    /\ unparsable_run' = [unparsable_run EXCEPT ![c] = 0]

TurnLocals == <<chat_history, iterations, observation, output, loop_end,
                ai_appended, direct_prompts, fallback_response, last_reply,
                unparsable_run>>
Accounts == <<users, login_ok>>
World == <<session, Accounts, llm_replies, turns_left, workers, now, host_tz,
           clock_out, wiki_call>>

-----------------------------------------------------------------------------
(* POST /chat: chat_api, lines 203-218, up to the call of get_chat_response *)

\* f"Internal server error: {str(e)}", line 218
internal_error(e) == InternalPrefix \o e.value

chat_api(c) ==
    /\ pc[c] = "idle"
    /\ resp[c] = NoResp
    /\ Cardinality(InFlight) < workers
    /\ \E body \in Bodies :
        LET got == get_input(body)
        IN  IF session[c] = NoUser
            THEN /\ resp' = [resp EXCEPT ![c] =
                        Response(401, "error", UnauthorizedText, NoExc, FALSE)]
                 /\ UNCHANGED <<pc, user_input, turns_left>>
            ELSE IF got.raised
            THEN /\ resp' = [resp EXCEPT ![c] =
                        Response(500, "error", internal_error(got), got, FALSE)]
                 /\ UNCHANGED <<pc, user_input, turns_left>>
            ELSE IF ~Truthy(got.value)
            THEN /\ resp' = [resp EXCEPT ![c] =
                        Response(400, "error", NoInputText, NoExc, FALSE)]
                 /\ UNCHANGED <<pc, user_input, turns_left>>
            ELSE /\ turns_left > 0
                 /\ turns_left' = turns_left - 1
                 /\ pc' = [pc EXCEPT ![c] = "add_user"]
                 /\ user_input' = [user_input EXCEPT ![c] = got.value]
                 /\ UNCHANGED resp
    /\ UNCHANGED <<messages, TurnLocals, session, Accounts, llm_replies,
                   workers, now, host_tz, clock_out, wiki_call>>

-----------------------------------------------------------------------------
(* get_chat_response, lines 106-146 *)

\* an outer handler that returns the exception's own text
turn_error_leaky(e) == e.value

\* the outer except clause, lines 144-146
turn_error(e) == ErrorText

\* the turn of client c ends: chat_api wraps the reply, line 215
ReturnReply(c, text, cause) ==
    /\ resp' = [resp EXCEPT ![c] = Response(200, "response", text, cause, TRUE)]
    /\ pc' = [pc EXCEPT ![c] = "idle"]

\* line 119: memory.chat_memory.add_message(HumanMessage(content=user_input));
\* HumanMessage rejects a content that is not text
AddUserMessage(c) ==
    /\ pc[c] = "add_user"
    /\ IF user_input[c].t = "str"
       THEN /\ messages' = Append(messages, HumanMessage(user_input[c].s, c))
            /\ pc' = [pc EXCEPT ![c] = "invoke"]
            /\ UNCHANGED resp
       ELSE LET e == Raise("ValidationError", Str(user_input[c]))
            IN  /\ ReturnReply(c, turn_error(e), e)
                /\ UNCHANGED messages
    /\ UNCHANGED <<user_input, TurnLocals, World>>

\* line 124, Chain.prep_inputs: the executor loads chat_history from the memory
Invoke(c) ==
    /\ pc[c] = "invoke"
    /\ chat_history' = [chat_history EXCEPT ![c] = buffer_as_messages(messages)]
    /\ iterations' = [iterations EXCEPT ![c] = 0]
    /\ pc' = [pc EXCEPT ![c] = "loop"]
    /\ UNCHANGED <<messages, user_input, observation, output, loop_end,
                   ai_appended, direct_prompts, fallback_response, last_reply,
                   unparsable_run, resp, World>>

\* the knowledge source answers only when the Wikipedia tool is run
SourcesAsked(reply) ==
    IF reply.kind = "action" /\ reply.tool = WikipediaName
    THEN Sources
    ELSE {[kind |-> "summary", text |-> <<>>]}

\* _call returns or raises: its counter and its intermediate steps are locals
\* and end with it
LoopExit(c) ==
    /\ iterations' = [iterations EXCEPT ![c] = 0]
    /\ observation' = [observation EXCEPT ![c] = <<>>]

\* what the loop has just been given by the LLM: the kind of the reply and the
\* tool an action names
AsSeen(reply) ==
    [kind |-> reply.kind,
     tool |-> IF reply.kind = "action" THEN reply.tool ELSE <<>>]

\* the count of unparsable replies of a loop that has seen nothing else: an
\* unparsable reply extends it, a final answer ends the loop and the count
\* with it, anything else breaks it
run_after(n, reply) ==
    CASE reply.kind = "unparsable" -> IF n >= 0 THEN n + 1 ELSE n
      [] reply.kind = "final" -> 0
      [] OTHER -> 0 - 1

\* an executor that lets OutputParserException out of the loop
handle_parsing_errors_off == FALSE

\* line 101: handle_parsing_errors=True
handle_parsing_errors == TRUE

\* no handler around the loop: its exception goes to the outer handler
inner_except_absent(c, e) == ReturnReply(c, turn_error(e), e)

\* lines 135-136: the inner except clause takes the exception e of the try
\* block, prints it, and the turn goes on to the fallback
inner_except(c, e) ==
    /\ pc' = [pc EXCEPT ![c] = "fallback"]
    /\ UNCHANGED resp

\* line 124, AgentExecutor._call: one pass of the while loop, or its exit
LoopStep(c) ==
    /\ pc[c] = "loop"
    /\ IF ~should_continue(iterations[c])
       THEN /\ output' = [output EXCEPT ![c] = StoppedText]
            /\ loop_end' = [loop_end EXCEPT ![c] = "Fail"]
            /\ pc' = [pc EXCEPT ![c] = "save"]
            /\ last_reply' = [last_reply EXCEPT ![c] = NoReply]
            /\ unparsable_run' = [unparsable_run EXCEPT ![c] = 0]
            /\ LoopExit(c)
            /\ UNCHANGED resp
       ELSE \E reply \in llm_replies : \E src \in SourcesAsked(reply) :
            /\ last_reply' = [last_reply EXCEPT ![c] = AsSeen(reply)]
            /\ unparsable_run' =
                    [unparsable_run EXCEPT ![c] = run_after(@, reply)]
            /\ CASE reply.kind = "final" ->
                    /\ output' = [output EXCEPT ![c] = reply.text]
                    /\ loop_end' = [loop_end EXCEPT ![c] = "Finish"]
                    /\ pc' = [pc EXCEPT ![c] = "save"]
                    /\ LoopExit(c)
                    /\ UNCHANGED resp
                 [] reply.kind = "action" ->
                    LET r == tool_run(reply.tool, reply.text, src, now,
                                      host_tz[ServerHost])
                    IN  IF r.raised
                        THEN /\ loop_end' = [loop_end EXCEPT ![c] = "Raise"]
                             /\ inner_except(c, r)
                             /\ LoopExit(c)
                             /\ UNCHANGED output
                        ELSE /\ observation' = [observation EXCEPT ![c] = r.value]
                             /\ iterations' = [iterations EXCEPT ![c] = @ + 1]
                             /\ UNCHANGED <<pc, output, loop_end, resp>>
                 [] reply.kind = "unparsable" ->
                    IF handle_parsing_errors
                    THEN /\ observation' =
                                [observation EXCEPT ![c] = ParseErrorText]
                         /\ iterations' = [iterations EXCEPT ![c] = @ + 1]
                         /\ UNCHANGED <<pc, output, loop_end, resp>>
                    ELSE /\ loop_end' = [loop_end EXCEPT ![c] = "Raise"]
                         /\ inner_except(c,
                                Raise("OutputParserException", reply.text))
                         /\ LoopExit(c)
                         /\ UNCHANGED output
                 [] OTHER ->
                    /\ loop_end' = [loop_end EXCEPT ![c] = "Raise"]
                    /\ inner_except(c, Raise("APIConnectionError", reply.text))
                    /\ LoopExit(c)
                    /\ UNCHANGED output
    /\ UNCHANGED <<messages, user_input, chat_history, ai_appended,
                   direct_prompts, fallback_response, World>>

\* the loop is over: what it was last given is forgotten
LoopForgotten(c) ==
    /\ last_reply' = [last_reply EXCEPT ![c] = NoReply]
    /\ unparsable_run' = [unparsable_run EXCEPT ![c] = 0]

\* line 124, Chain.prep_outputs: the executor saves the exchange to its memory
SaveContext(c) ==
    /\ pc[c] = "save"
    /\ messages' = messages \o <<HumanMessage(Str(user_input[c]), c),
                                 AIMessage(output[c], c)>>
    /\ ai_appended' = [ai_appended EXCEPT ![c] = @ + 1]
    /\ pc' = [pc EXCEPT ![c] = "check"]
    /\ LoopForgotten(c)
    /\ UNCHANGED <<user_input, chat_history, iterations, observation, output,
                   loop_end, direct_prompts, fallback_response, resp, World>>

\* a test that compares the text as it is
is_limit_message_cased(text) == Contains(text, IterationLimit)

\* line 128: "iteration limit" in response["output"].lower()
is_limit_message(text) == Contains(Lower(text), IterationLimit)

\* lines 127-132: the answer is appended to the memory, or ValueError (line
\* 130) sends the turn to the fallback
CheckResponse(c) ==
    /\ pc[c] = "check"
    /\ IF is_limit_message(output[c])
       THEN /\ inner_except(c, Raise("ValueError", LimitReachedText))
            /\ UNCHANGED <<messages, ai_appended>>
       ELSE /\ messages' = Append(messages, AIMessage(output[c], c))
            /\ ai_appended' = [ai_appended EXCEPT ![c] = @ + 1]
            /\ pc' = [pc EXCEPT ![c] = "return"]
            /\ UNCHANGED resp
    /\ UNCHANGED <<user_input, chat_history, iterations, observation, output,
                   loop_end, direct_prompts, fallback_response, last_reply,
                   unparsable_run, World>>

\* a prompt that also carries what the memory holds
fallback_prompt_with_history(u) ==
    FallbackPrefix
        \o (IF messages = <<>> THEN <<>> ELSE messages[1].content) \o Str(u)

\* line 140: f"Provide an answer to: {user_input}"
fallback_prompt(u) == FallbackPrefix \o Str(u)

\* lines 139-141: the direct completion is requested and its text appended to
\* the memory; when the request raises, lines 144-146
Fallback(c) ==
    /\ pc[c] = "fallback"
    /\ \E r \in DirectOutcomes :
        /\ direct_prompts' = [direct_prompts EXCEPT ![c] =
                Append(@, fallback_prompt(user_input[c]))]
        /\ IF r.raised
           THEN /\ ReturnReply(c, turn_error(r), r)
                /\ UNCHANGED <<messages, ai_appended, fallback_response>>
           ELSE /\ messages' = Append(messages, AIMessage(r.value, c))
                /\ ai_appended' = [ai_appended EXCEPT ![c] = @ + 1]
                /\ fallback_response' =
                        [fallback_response EXCEPT ![c] = JStr(r.value)]
                /\ pc' = [pc EXCEPT ![c] = "return"]
                /\ UNCHANGED resp
    /\ LoopForgotten(c)
    /\ UNCHANGED <<user_input, chat_history, iterations, observation, output,
                   loop_end, World>>

\* lines 133 and 142: return response["output"], return fallback_response
ReturnAnswer(c) ==
    /\ pc[c] = "return"
    /\ ReturnReply(c, IF fallback_response[c] = JNull
                      THEN output[c]
                      ELSE fallback_response[c].s, NoExc)
    /\ UNCHANGED <<messages, user_input, TurnLocals, World>>

\* the steps of the thread that serves client c's request
TurnStep(c) ==
    \/ AddUserMessage(c)
    \/ Invoke(c)
    \/ LoopStep(c)
    \/ SaveContext(c)
    \/ CheckResponse(c)
    \/ Fallback(c)
    \/ ReturnAnswer(c)

\* the client takes the response off the wire; the turn's locals die with it
Receive(c) ==
    /\ resp[c] # NoResp
    /\ resp' = [resp EXCEPT ![c] = NoResp]
    /\ user_input' = [user_input EXCEPT ![c] = JNull]
    /\ FreshTurn(c)
    /\ UNCHANGED <<messages, pc, World>>

\* url_for("login")
LoginPath == <<"/", "l", "o", "g", "i", "n">>

\* a logout that also empties the memory
logout_clearing(c) ==
    /\ pc[c] = "idle"
    /\ resp[c] = NoResp
    /\ Cardinality(InFlight) < workers
    /\ session' = [session EXCEPT ![c] = NoUser]
    /\ login_ok' = [login_ok EXCEPT ![c] = FALSE]
    /\ messages' = <<>>
    /\ resp' = [resp EXCEPT ![c] =
            Response(302, "location", LoginPath, NoExc, FALSE)]
    /\ UNCHANGED <<pc, user_input, TurnLocals, users, llm_replies,
                   turns_left, workers, now, host_tz, clock_out, wiki_call>>

\* GET /logout, lines 220-223: session.pop("username", None), then a redirect
logout(c) ==
    /\ pc[c] = "idle"
    /\ resp[c] = NoResp
    /\ Cardinality(InFlight) < workers
    /\ session' = [session EXCEPT ![c] = NoUser]
    /\ login_ok' = [login_ok EXCEPT ![c] = FALSE]
    /\ resp' = [resp EXCEPT ![c] =
            Response(302, "location", LoginPath, NoExc, FALSE)]
    /\ UNCHANGED <<messages, pc, user_input, TurnLocals, users, llm_replies,
                   turns_left, workers, now, host_tz, clock_out, wiki_call>>

-----------------------------------------------------------------------------
(* Accounts: POST /register, lines 180-195, and POST /login, lines 161-178 *)

Usernames == {"alice", "bob"}
Passwords == {"right", "wrong"}

\* the password each user registers with; "wrong" is nobody's
password_of(u) == "right"

\* bcrypt.generate_password_hash(password).decode("utf-8"): not the password
generate_password_hash(password) == <<"$2b$", password>>

\* a check that accepts every password
check_password_hash_any(pw_hash, password) == TRUE

\* bcrypt.check_password_hash(user[0], password)
check_password_hash(pw_hash, password) ==
    pw_hash = generate_password_hash(password)

\* SELECT password FROM users WHERE username = ?: the rows found
fetch(username) == {row \in users : row.username = username}

\* url_for("chat")
ChatPath == <<"/", "c", "h", "a", "t">>

\* the account username exists and password is the one it was registered with
Registered(username, password) ==
    \E row \in users : row.username = username /\ row.plain = password

\* POST /register: the row is inserted and the client sent to /login; the
\* UNIQUE constraint on username makes a second insert raise IntegrityError.
\* `plain` records the password the row was registered with (the table keeps
\* no such column)
register(c) ==
    /\ pc[c] = "idle"
    /\ resp[c] = NoResp
    /\ Cardinality(InFlight) < workers
    /\ \E username \in Usernames :
        LET password == password_of(username)
            hashed_password == generate_password_hash(password)
        IN  IF fetch(username) = {}
            THEN /\ users' = users \cup
                        {[username |-> username, password |-> hashed_password,
                          plain |-> password]}
                 /\ resp' = [resp EXCEPT ![c] =
                        Response(302, "location", LoginPath, NoExc, FALSE)]
            ELSE /\ resp' = [resp EXCEPT ![c] =
                        Response(200, "error", UsernameExistsText,
                                 Raise("IntegrityError", <<>>), FALSE)]
                 /\ UNCHANGED users
    /\ UNCHANGED <<messages, session, login_ok, pc, user_input, TurnLocals,
                   llm_replies, turns_left, workers, now, host_tz, clock_out,
                   wiki_call>>

\* POST /login: with a stored row and a matching password the session gets
\* the username and the client is sent to /chat; otherwise the login page is
\* shown again and the session is left as it was
login(c) ==
    /\ pc[c] = "idle"
    /\ resp[c] = NoResp
    /\ Cardinality(InFlight) < workers
    /\ \E username \in Usernames, password \in Passwords :
        LET user == fetch(username)
        IN  IF /\ user # {}
               /\ check_password_hash((CHOOSE row \in user : TRUE).password,
                                      password)
            THEN /\ session' = [session EXCEPT ![c] = username]
                 /\ login_ok' = [login_ok EXCEPT ![c] =
                        Registered(username, password)]
                 /\ resp' = [resp EXCEPT ![c] =
                        Response(302, "location", ChatPath, NoExc, FALSE)]
            ELSE /\ resp' = [resp EXCEPT ![c] =
                        Response(200, "error", InvalidLoginText, NoExc, FALSE)]
                 /\ UNCHANGED <<session, login_ok>>
    /\ UNCHANGED <<messages, users, pc, user_input, TurnLocals, llm_replies,
                   turns_left, workers, now, host_tz, clock_out, wiki_call>>

-----------------------------------------------------------------------------
(* The clock and GET /current_time, lines 225-233 *)

HostOffsets == {-480, 0, 330}
NoClock == [at |-> -1, text |-> <<>>]

\* time passes; results of earlier instants are forgotten
Tick ==
    /\ now < ClockStart + MaxTicks * TickMinutes
    /\ now' = now + TickMinutes
    /\ clock_out' = [h \in Hosts |-> NoClock]
    /\ UNCHANGED <<messages, session, pc, user_input, TurnLocals, resp,
                   Accounts, llm_replies, turns_left, workers, host_tz,
                   wiki_call>>

\* the administrator of host h sets its local timezone
SetTimezone(h) ==
    /\ \E off \in HostOffsets :
        /\ off # host_tz[h]
        /\ host_tz' = [host_tz EXCEPT ![h] = off]
    /\ UNCHANGED <<messages, session, pc, user_input, TurnLocals, resp,
                   Accounts, llm_replies, turns_left, workers, now,
                   clock_out, wiki_call>>

\* GET /current_time on host h: jsonify({"current_time": get_current_time()})
current_time(h) ==
    /\ clock_out' = [clock_out EXCEPT ![h] =
            [at |-> now, text |-> get_current_time(now, host_tz[h])]]
    /\ UNCHANGED <<messages, session, pc, user_input, TurnLocals, resp,
                   Accounts, llm_replies, turns_left, workers, now, host_tz,
                   wiki_call>>

-----------------------------------------------------------------------------
(* A direct call of the topic-lookup adapter *)

\* an ASCII letter of each case, a digit, a blank, a punctuation mark and a
\* letter outside ASCII
QueryAlphabet == {"a", "Z", "7", " ", "!", "é"}

RECURSIVE TextsUpTo(_)
TextsUpTo(n) ==
    IF n = 0 THEN {<<>>}
    ELSE LET shorter == TextsUpTo(n - 1)
         IN  shorter \cup {Append(s, ch) : s \in shorter, ch \in QueryAlphabet}

\* what a caller may pass as query: any short text, or a value that is no text
Queries ==
    {JStr(s) : s \in TextsUpTo(MaxQueryLen)} \cup {JObj(<<"{", "}">>), JNull}

\* a call of search_wikipedia that has not run yet
PendingCall(q, src) ==
    [query |-> q, src |-> src, sent |-> <<>>, result |-> NoExc, done |-> FALSE]
NoCall == PendingCall(JNull, [kind |-> "summary", text |-> <<>>])

CallWikipedia ==
    /\ ~wiki_call.done
    /\ wiki_call' = [wiki_call EXCEPT
            !.sent = queries_sent(wiki_call.query),
            !.result = search_wikipedia(wiki_call.query, wiki_call.src),
            !.done = TRUE]
    /\ UNCHANGED <<messages, session, pc, user_input, TurnLocals, resp,
                   Accounts, llm_replies, turns_left, workers, now, host_tz,
                   clock_out>>

-----------------------------------------------------------------------------
(* Specifications *)

InitCommon ==
    /\ messages = <<>>
    /\ pc = [c \in Clients |-> "idle"]
    /\ user_input = [c \in Clients |-> JNull]
    /\ chat_history = [c \in Clients |-> <<>>]
    /\ iterations = [c \in Clients |-> 0]
    /\ observation = [c \in Clients |-> <<>>]
    /\ output = [c \in Clients |-> <<>>]
    /\ loop_end = [c \in Clients |-> "none"]
    /\ ai_appended = [c \in Clients |-> 0]
    /\ direct_prompts = [c \in Clients |-> <<>>]
    /\ fallback_response = [c \in Clients |-> JNull]
    /\ last_reply = [c \in Clients |-> NoReply]
    /\ unparsable_run = [c \in Clients |-> 0]
    /\ resp = [c \in Clients |-> NoResp]
    /\ now = ClockStart
    /\ host_tz = [h \in Hosts |-> 0]
    /\ clock_out = [h \in Hosts |-> NoClock]

\* both accounts exist
AllRegistered ==
    {[username |-> u, password |-> generate_password_hash(password_of(u)),
      plain |-> password_of(u)] : u \in Usernames}

\* one user is logged in and the server serves one request at a time
Init ==
    /\ InitCommon
    /\ wiki_call = NoCall
    /\ llm_replies = LLMReplies
    /\ users = AllRegistered
    /\ session = [c \in Clients |-> IF c = "c1" THEN "alice" ELSE NoUser]
    /\ login_ok = [c \in Clients |-> c = "c1"]
    /\ workers = 1
    /\ turns_left = MaxTurns

Next ==
    \E c \in Clients :
        \/ chat_api(c)
        \/ TurnStep(c)
        \/ Receive(c)
        \/ logout(c)

Spec == Init /\ [][Next]_vars

\* two users are logged in and the server serves their requests in parallel
\* threads (app.run, line 248)
InitConc ==
    /\ InitCommon
    /\ wiki_call = NoCall
    /\ llm_replies = LLMReplies
    /\ users = AllRegistered
    /\ session = [c \in Clients |-> IF c = "c1" THEN "alice" ELSE "bob"]
    /\ login_ok = [c \in Clients |-> TRUE]
    /\ workers = 2
    /\ turns_left = MaxConcTurns

SpecConc == InitConc /\ [][Next]_vars

\* as Spec, and a thread that can take a step eventually takes it: every
\* upstream call returns
InitLive ==
    /\ InitCommon
    /\ wiki_call = NoCall
    /\ llm_replies = LLMReplies
    /\ users = AllRegistered
    /\ session = [c \in Clients |-> IF c = "c1" THEN "alice" ELSE NoUser]
    /\ login_ok = [c \in Clients |-> c = "c1"]
    /\ workers = 1
    /\ turns_left = MaxLiveTurns

SpecLive ==
    /\ InitLive
    /\ [][Next]_vars
    /\ \A c \in Clients : WF_vars(TurnStep(c))

\* the clock adapter on two hosts
NextClock ==
    \/ Tick
    \/ \E h \in Hosts : SetTimezone(h) \/ current_time(h)

SpecClock == Init /\ [][NextClock]_vars

\* the tool adapters called directly: the topic lookup with any query,
\* whatever the knowledge source answers, and the clock
InitTools ==
    /\ InitCommon
    /\ wiki_call \in {PendingCall(q, src) : q \in Queries, src \in Sources}
    /\ llm_replies = LLMReplies
    /\ users = {}
    /\ session = [c \in Clients |-> NoUser]
    /\ login_ok = [c \in Clients |-> FALSE]
    /\ workers = 1
    /\ turns_left = 0

NextTools ==
    \/ CallWikipedia
    \/ \E h \in Hosts : current_time(h)

SpecTools == InitTools /\ [][NextTools]_vars

\* the accounts and sessions from an empty users table on: nobody is logged
\* in, the server serves one request at a time, and the agent's LLM answers at
\* its first step
InitWeb ==
    /\ InitCommon
    /\ wiki_call = NoCall
    /\ llm_replies = {reply \in LLMReplies : reply.kind = "final"}
    /\ users = {}
    /\ session = [c \in Clients |-> NoUser]
    /\ login_ok = [c \in Clients |-> FALSE]
    /\ workers = 1
    /\ turns_left = MaxWebTurns

NextWeb ==
    \/ Next
    \/ \E c \in Clients : register(c) \/ login(c)

SpecWeb == InitWeb /\ [][NextWeb]_vars

-----------------------------------------------------------------------------
(* Claims *)

\* client c's turn has ended and its reply is on the way to the client
TurnEnded(c) == resp[c].turn

\* the turn ended with an answer, not with the fixed error text of line 146
TurnAnswered(c) == TurnEnded(c) /\ resp[c].cause = NoExc

\* the direct completion of line 140 was requested in c's turn
FallbackFired(c) == direct_prompts[c] # <<>>

\* C1: in every turn that ends with an answer, exactly one assistant message
\* was appended to the memory between the start and the end of the turn,
\* counting the executor's own save as well as the explicit add_message calls.
C1_OneAssistantMessagePerTurn ==
    \A c \in Clients : TurnAnswered(c) => ai_appended[c] = 1

\* C2 as stated: at the end of every turn, the fallback fired if and only if
\* the loop ended in Fail or its final answer contains "iteration limit"
\* (case-insensitively).
C2_FallbackIffFailOrLimitText ==
    \A c \in Clients :
        TurnEnded(c) =>
            (FallbackFired(c) <=>
                \/ loop_end[c] = "Fail"
                \/ /\ loop_end[c] = "Finish"
                   /\ Contains(Lower(output[c]), IterationLimit))

\* C2 amended: at the end of every turn, the fallback fired if and only if
\* the loop raised an error, ended in Fail, or its final answer contains
\* "iteration limit" (case-insensitively); a Finish without that text never
\* fires it and every Fail does.
C2_FallbackIffRaiseFailOrLimitText ==
    \A c \in Clients :
        /\ TurnEnded(c) =>
            (FallbackFired(c) <=>
                \/ loop_end[c] = "Raise"
                \/ loop_end[c] = "Fail"
                \/ /\ loop_end[c] = "Finish"
                   /\ Contains(Lower(output[c]), IterationLimit))
        /\ pc[c] \in {"add_user", "invoke", "loop", "save", "check"} =>
            ~FallbackFired(c)

\* a Finish whose text holds the words in another case sent the turn to the
\* fallback
C2_Witness ==
    \E c \in Clients :
        /\ TurnEnded(c)
        /\ loop_end[c] = "Finish"
        /\ output[c] = DegenerateText
        /\ ~Contains(output[c], IterationLimit)
        /\ FallbackFired(c)

\* C3: the loop never performs more than max_iterations cycles; a loop that
\* has used its budget leaves with Fail at its next step; a loop that returns
\* is in Finish or Fail; and every turn that starts eventually returns a
\* reply, given that every upstream call returns.
C3_LoopBoundedAndTurnReturns ==
    /\ [](\A c \in Clients : iterations[c] <= max_iterations)
    /\ [](\A c \in Clients :
            pc[c] \in {"save", "check"} => loop_end[c] \in {"Finish", "Fail"})
    /\ [][\A c \in Clients :
            (pc[c] = "loop" /\ iterations[c] = max_iterations /\ pc'[c] # "loop")
                => loop_end'[c] = "Fail"]_vars
    /\ \A c \in Clients : (pc[c] # "idle") ~> TurnEnded(c)

\* a loop that has performed all max_iterations cycles
C3_Witness ==
    \E c \in Clients : pc[c] = "loop" /\ iterations[c] = max_iterations

\* C4: while two clients of different sessions both have a turn in progress,
\* the history one turn read from the memory holds no message appended by the
\* other.
C4_NoCrossSessionLeak ==
    \A c, d \in Clients :
        (/\ c # d
         /\ session[c] # session[d]
         /\ pc[c] = "loop"
         /\ pc[d] # "idle")
            => \A i \in 1..Len(chat_history[c]) : chat_history[c][i].by # d

WholePairs(h) ==
    /\ h # <<>>
    /\ Len(h) % 2 = 1
    /\ \A i \in 1..Len(h) :
        h[i].type = (IF i % 2 = 1 THEN "human" ELSE "ai")

\* C6: the history supplied to the loop starts with a user message and is made
\* of whole user/assistant pairs plus the current utterance.
C6_WindowOfWholePairs ==
    \A c \in Clients : pc[c] = "loop" => WholePairs(chat_history[c])

\* C7: every turn ends with a text returned to chat_api and never with an
\* exception: a turn in progress can always take its next step, its reply is
\* delivered as the 200 response, and when an exception reached the outer
\* handler the reply is the fixed ErrorText whatever the exception says.
C7_TurnReturnsTextNeverRaises ==
    \A c \in Clients :
        /\ pc[c] # "idle" => ENABLED TurnStep(c)
        /\ resp[c].status = 500 => ~TurnEnded(c)
        /\ TurnEnded(c) =>
            /\ resp[c].status = 200
            /\ resp[c].body \in Seq(STRING)
            /\ resp[c].cause.raised => resp[c].body = ErrorText

\* the fallback's completion failed after the loop had failed, and the turn
\* returned the fixed text
C7_Witness ==
    \E c \in Clients :
        /\ TurnEnded(c)
        /\ loop_end[c] = "Raise"
        /\ resp[c].cause.raised
        /\ resp[c].cause.cls = "APIConnectionError"
        /\ resp[c].body = ErrorText

\* C8: two failed requests whose exceptions differ only in their message get
\* the same response body.
C8_FailureBodyIndependentOfMessage ==
    \A c, d \in Clients :
        (/\ resp[c].cause.raised
         /\ resp[d].cause.raised
         /\ resp[c].status = resp[d].status
         /\ resp[c].cause.cls = resp[d].cause.cls)
            => resp[c].body = resp[d].body

\* C9: search_wikipedia returns a text and raises nothing, for every query and
\* every answer of the knowledge source, also when sanitizing raises; and
\* get_current_time returns a text.
C9_AdaptersTotal ==
    /\ wiki_call.done =>
        /\ ~wiki_call.result.raised
        /\ wiki_call.result.value \in Seq(STRING)
    /\ \A h \in Hosts :
        clock_out[h] # NoClock => clock_out[h].text \in Seq(STRING)

\* a query that is an object, not a text, made re.sub raise, and the adapter returned the
\* error as text
C9_Witness ==
    /\ wiki_call.done
    /\ wiki_call.query.t = "obj"
    /\ wiki_call.sent = <<>>
    /\ wiki_call.result = Return(ErrorPrefix \o ReSubMsg)

\* YYYY-MM-DD hh:mm AM/PM with hh on the 12-hour clock
ClockFormat(s) ==
    /\ Len(s) = 19
    /\ s[5] = "-" /\ s[8] = "-" /\ s[11] = " " /\ s[14] = ":" /\ s[17] = " "
    /\ \A i \in {1, 2, 3, 4, 6, 7, 9, 10, 12, 13, 15, 16} : IsIn(s[i], Digits)
    /\ <<s[12], s[13]>> \in
        {<<"0", "1">>, <<"0", "2">>, <<"0", "3">>, <<"0", "4">>, <<"0", "5">>,
         <<"0", "6">>, <<"0", "7">>, <<"0", "8">>, <<"0", "9">>, <<"1", "0">>,
         <<"1", "1">>, <<"1", "2">>}
    /\ <<s[18], s[19]>> \in {<<"A", "M">>, <<"P", "M">>}

\* C10: two hosts that read the clock at the same instant get the same text
\* whatever their local timezones; the text has the form YYYY-MM-DD hh:mm
\* AM/PM; and it is the instant at UTC-5: 2024-12-31 20:00 UTC reads
\* 2024-12-31 03:00 PM, 04:15 UTC of the next day reads 11:15 PM of
\* 2024-12-31, and 05:00 UTC reads 2025-01-01 12:00 AM.
C10_ClockIndependentOfHostZone ==
    /\ \A g, h \in Hosts :
        (clock_out[g] # NoClock /\ clock_out[h] # NoClock
         /\ clock_out[g].at = clock_out[h].at)
            => clock_out[g].text = clock_out[h].text
    /\ \A h \in Hosts :
        clock_out[h] # NoClock =>
            /\ ClockFormat(clock_out[h].text)
            /\ clock_out[h].at = 28927920 =>
                clock_out[h].text = <<"2", "0", "2", "4", "-", "1", "2", "-", "3", "1", " ", "0", "3", ":", "0", "0", " ", "P", "M">>
            /\ clock_out[h].at = 28928415 =>
                clock_out[h].text = <<"2", "0", "2", "4", "-", "1", "2", "-", "3", "1", " ", "1", "1", ":", "1", "5", " ", "P", "M">>
            /\ clock_out[h].at = 28928460 =>
                clock_out[h].text = <<"2", "0", "2", "5", "-", "0", "1", "-", "0", "1", " ", "1", "2", ":", "0", "0", " ", "A", "M">>

\* two hosts in different timezones read the clock at 05:00 UTC, the day
\* rollover of UTC-5
C10_Witness ==
    /\ now = 28928460
    /\ host_tz["h1"] # host_tz["h2"]
    /\ \A h \in Hosts : clock_out[h].at = now
    /\ clock_out["h1"].text = <<"2", "0", "2", "5", "-", "0", "1", "-", "0", "1", " ", "1", "2", ":", "0", "0", " ", "A", "M">>

\* C11: a turn whose loop raised an error went on to the fallback, as a turn
\* whose loop ran out of iterations does; and when the direct completion
\* returned a text, that text is the reply of the turn, not an error.
C11_LoopErrorTakesFallback ==
    \A c \in Clients :
        (TurnEnded(c) /\ loop_end[c] \in {"Raise", "Fail"}) =>
            /\ FallbackFired(c)
            /\ fallback_response[c] # JNull =>
                /\ resp[c].status = 200
                /\ resp[c].cause = NoExc
                /\ resp[c].body = fallback_response[c].s
            /\ fallback_response[c] = JNull => resp[c].cause \in DirectOutcomes

\* the LLM call of the loop raised, and the turn returned the direct
\* completion's text
C11_Witness ==
    \E c \in Clients :
        /\ TurnEnded(c)
        /\ loop_end[c] = "Raise"
        /\ resp[c].body = DirectText
        /\ resp[c].cause = NoExc

\* the last message in the memory that client c's turns appended
LastMessageOf(c) ==
    LET mine == {i \in 1..Len(messages) : messages[i].by = c}
    IN  messages[CHOOSE i \in mine : \A j \in mine : j <= i]

\* C12: a turn requests at most one direct completion, and exactly one when
\* its loop raised or ran out of iterations; the prompt is the fixed prefix
\* followed by the utterance and nothing else; and the text the completion
\* returned is the reply of the turn and the content of the assistant message
\* the turn appended last.
C12_OneDirectRequestFromUtterance ==
    \A c \in Clients :
        /\ Len(direct_prompts[c]) <= 1
        /\ (TurnEnded(c) /\ loop_end[c] \in {"Raise", "Fail"}) =>
            Len(direct_prompts[c]) = 1
        /\ FallbackFired(c) =>
            /\ user_input[c].t = "str"
            /\ direct_prompts[c] = <<FallbackPrefix \o user_input[c].s>>
        /\ fallback_response[c] # JNull =>
            /\ FallbackFired(c)
            /\ LastMessageOf(c).type = "ai"
            /\ LastMessageOf(c).content = fallback_response[c].s
            /\ TurnEnded(c) => resp[c].body = fallback_response[c].s

\* the loop used up its budget, and the turn returned the direct completion's
\* text after one request
C12_Witness ==
    \E c \in Clients :
        /\ TurnAnswered(c)
        /\ loop_end[c] = "Fail"
        /\ Len(direct_prompts[c]) = 1
        /\ resp[c].body = DirectText

\* the last message in the memory
LastMessage == messages[Len(messages)]

\* the reply that client c's turn is about to return
ReplyOf(c) ==
    IF fallback_response[c] = JNull THEN output[c] ELSE fallback_response[c].s

\* C13: within a turn the utterance is appended before the loop reads its
\* history, so that history holds it; the loop has ended before the fallback is
\* requested; the answer is appended before it is returned; and when a turn
\* returns an answer, that answer is the content of the last message in the
\* memory at that moment.
C13_AnswerIsLastMessageAtReturn ==
    /\ [](\A c \in Clients :
            pc[c] = "loop" =>
                \E i \in 1..Len(chat_history[c]) :
                    chat_history[c][i] = HumanMessage(Str(user_input[c]), c))
    /\ [](\A c \in Clients :
            pc[c] = "fallback" => loop_end[c] \in {"Raise", "Fail", "Finish"})
    /\ [](\A c \in Clients :
            pc[c] = "return" => LastMessageOf(c) = AIMessage(ReplyOf(c), c))
    /\ [][\A c \in Clients :
            (pc[c] = "return" /\ TurnAnswered(c)') =>
                /\ resp'[c].body = ReplyOf(c)
                /\ LastMessage.type = "ai"
                /\ LastMessage.content = resp'[c].body]_vars

\* client c's loop takes a step that changes its counter or leaves the loop
LoopMoves(c) ==
    /\ pc[c] = "loop"
    /\ <<iterations[c], pc[c]>>' # <<iterations[c], pc[c]>>

\* C14: a reply of the LLM that cannot be parsed does not end the loop: the
\* loop stays in the loop with the parse error as its observation and its
\* counter one higher, the same counter that max_iterations bounds. A loop that
\* was given n unparsable replies and nothing else has counted n iterations;
\* when a final answer follows, n is below max_iterations and the loop ends in
\* Finish; when the loop has been given max_iterations of them its next step
\* ends it in Fail.
C14_UnparsableReplyCostsOneIteration ==
    /\ [][\A c \in Clients :
            (LoopMoves(c) /\ last_reply'[c].kind = "unparsable") =>
                /\ pc'[c] = "loop"
                /\ loop_end'[c] = "none"
                /\ iterations'[c] = iterations[c] + 1
                /\ iterations'[c] <= max_iterations
                /\ observation'[c] = ParseErrorText]_vars
    /\ [](\A c \in Clients :
            (pc[c] = "loop" /\ unparsable_run[c] >= 0) =>
                /\ iterations[c] = unparsable_run[c]
                /\ unparsable_run[c] <= max_iterations)
    /\ [][\A c \in Clients :
            (/\ LoopMoves(c)
             /\ unparsable_run[c] >= 0
             /\ last_reply'[c].kind = "final") =>
                /\ unparsable_run[c] < max_iterations
                /\ pc'[c] = "save"
                /\ loop_end'[c] = "Finish"]_vars
    /\ [][\A c \in Clients :
            (LoopMoves(c) /\ unparsable_run[c] = max_iterations) =>
                /\ pc'[c] = "save"
                /\ loop_end'[c] = "Fail"]_vars

\* a loop that has been given max_iterations - 1 unparsable replies and
\* nothing else is still running
C14_Witness ==
    \E c \in Clients :
        /\ pc[c] = "loop"
        /\ unparsable_run[c] = max_iterations - 1
        /\ observation[c] = ParseErrorText
        /\ ENABLED LoopStep(c)

\* C15: an action of the LLM that names a tool outside the tool set does not
\* end the loop: the loop stays in the loop, its observation is the text that
\* says the name is not a valid tool, and its counter is one higher.
C15_UnknownToolIsObserved ==
    /\ [][\A c \in Clients :
            (/\ LoopMoves(c)
             /\ last_reply'[c].kind = "action"
             /\ last_reply'[c].tool \notin {WikipediaName, TimeName}) =>
                /\ pc'[c] = "loop"
                /\ loop_end'[c] = "none"
                /\ iterations'[c] = iterations[c] + 1
                /\ observation'[c] = last_reply'[c].tool \o InvalidToolSuffix
                /\ Contains(observation'[c],
                        <<"n", "o", "t", " ", "a", " ", "v", "a", "l", "i",
                          "d", " ", "t", "o", "o", "l">>)]_vars
    /\ [](\A c \in Clients : pc[c] = "loop" => ENABLED LoopStep(c))

\* the loop has just observed that "Search" is not a valid tool
C15_Witness ==
    \E c \in Clients :
        /\ pc[c] = "loop"
        /\ last_reply[c] = [kind |-> "action", tool |-> UnknownToolName]
        /\ observation[c] = UnknownToolName \o InvalidToolSuffix
        /\ iterations[c] >= 1

\* text s begins with prefix
StartsWith(s, prefix) ==
    Len(s) >= Len(prefix) /\ SubSeq(s, 1, Len(prefix)) = prefix

\* C16: for a query that is a text, search_wikipedia returns the summary
\* unchanged when the lookup succeeds; "Multiple results found: " followed by
\* the candidates the exception carries when the topic is ambiguous;
\* exactly "No results found on Wikipedia." when there is no such page; and
\* "Error: " followed by the exception's text for any other failure. The
\* ambiguous and the missing topic are never reported with "Error: ".
C16_LookupOutcomesAsText ==
    (wiki_call.done /\ wiki_call.query.t = "str") =>
        LET kind == wiki_call.src.kind
            text == wiki_call.src.text
            result == wiki_call.result
        IN  /\ ~result.raised
            /\ kind = "summary" => result.value = text
            /\ kind = "DisambiguationError" =>
                /\ StartsWith(result.value, MultiplePrefix)
                /\ SubSeq(result.value, Len(MultiplePrefix) + 1,
                          Len(result.value)) = text
                /\ ~StartsWith(result.value, ErrorPrefix)
            /\ kind = "PageError" =>
                /\ result.value = NoResultsText
                /\ ~StartsWith(result.value, ErrorPrefix)
            /\ kind \notin {"summary", "DisambiguationError", "PageError"} =>
                /\ StartsWith(result.value, ErrorPrefix)
                /\ SubSeq(result.value, Len(ErrorPrefix) + 1,
                          Len(result.value)) = text

\* an ambiguous topic was reported with its two candidates
C16_Witness ==
    /\ wiki_call.done
    /\ wiki_call.query.t = "str"
    /\ wiki_call.src.kind = "DisambiguationError"
    /\ wiki_call.result = Return(MultiplePrefix \o <<"A", "\n", "B">>)

\* letters of any alphabet, as far as the queries of the model go
IsLetter(ch) ==
    IsIn(ch, LowerLetters) \/ IsIn(ch, UpperLetters) \/ ch \in {"é"}
IsAsciiLetter(ch) == IsIn(ch, LowerLetters) \/ IsIn(ch, UpperLetters)
IsDigit(ch) == IsIn(ch, Digits)

\* text s without the characters at the positions gone, order kept
RECURSIVE Without(_, _)
Without(s, gone) ==
    IF s = <<>> THEN <<>>
    ELSE LET rest == Without(SubSeq(s, 1, Len(s) - 1), gone)
         IN  IF Len(s) \in gone THEN rest ELSE Append(rest, s[Len(s)])

\* text s from its first to its last character that is not whitespace
Trimmed(s) ==
    LET solid == {i \in 1..Len(s) : s[i] \notin Whitespace}
    IN  IF solid = {} THEN <<>>
        ELSE SubSeq(s, CHOOSE i \in solid : \A j \in solid : i <= j,
                       CHOOSE i \in solid : \A j \in solid : j <= i)

\* the one request of a call that was given the text s, when the characters
\* Keep accepts are the ones that stay
OneRequest(s, Keep(_)) ==
    <<[title |-> Trimmed(Without(s, {i \in 1..Len(s) : ~Keep(s[i])})),
       sentences |-> 2]>>

KeepsLetters(ch) == IsLetter(ch) \/ IsDigit(ch) \/ ch \in Whitespace
KeepsAsciiLetters(ch) == IsAsciiLetter(ch) \/ IsDigit(ch) \/ ch \in Whitespace

\* C17 as stated: a call with a text sends the knowledge source one request
\* for a two-sentence summary, whose title is the text without every character
\* that is not a letter, a digit or whitespace, trimmed of leading and
\* trailing whitespace.
C17_KeepsLettersDigitsWhitespace ==
    (wiki_call.done /\ wiki_call.query.t = "str") =>
        wiki_call.sent = OneRequest(wiki_call.query.s, KeepsLetters)

\* C17 amended: a call with a text sends the knowledge source one request for
\* a two-sentence summary, whose title is the text without every character
\* that is not one of the letters a-z and A-Z, a digit 0-9 or whitespace
\* (letters outside ASCII are deleted too), order kept, trimmed of leading
\* and trailing whitespace; and sanitizing the title again gives the title.
C17_KeepsAsciiLettersDigitsWhitespace ==
    (wiki_call.done /\ wiki_call.query.t = "str") =>
        /\ wiki_call.sent = OneRequest(wiki_call.query.s, KeepsAsciiLetters)
        /\ sanitized_query(JStr(wiki_call.sent[1].title))
                = Return(wiki_call.sent[1].title)

\* a query with a letter outside ASCII, a punctuation mark and a trailing
\* blank went out as its one ASCII letter
C17_Witness ==
    /\ wiki_call.done
    /\ wiki_call.query = JStr(<<"é", "a", " ">>)
    /\ wiki_call.sent = <<[title |-> <<"a">>, sentences |-> 2]>>

\* client c's POST /chat is answered or accepted in this step
ChatRequest(c) ==
    /\ pc[c] = "idle"
    /\ resp[c] = NoResp
    /\ \/ pc'[c] = "add_user"
       \/ resp'[c].status \in {400, 401, 500}

\* C18: whatever register, login, logout and chat requests are made, a turn
\* runs only for a client whose session has a username that a login with a
\* registered username and its password set and no logout has removed since,
\* and only with an input that is not empty; the memory changes only in a
\* step of such a turn; a POST /chat without a username in the session gets
\* 401 "Unauthorized", one with an empty or missing input gets 400 "No input
\* provided", and neither starts a turn nor changes the memory.
C18_TurnOnlyForLoggedInNonEmptyInput ==
    /\ [](\A c \in Clients :
            pc[c] # "idle" =>
                /\ session[c] \in Usernames
                /\ login_ok[c]
                /\ Truthy(user_input[c]))
    /\ [][messages' # messages =>
            \E c \in Clients :
                /\ pc[c] \notin {"idle", "return"}
                /\ login_ok[c]
                /\ Truthy(user_input[c])]_vars
    /\ [][\A c \in Clients :
            ChatRequest(c) =>
                /\ session[c] = NoUser <=> resp'[c].status = 401
                /\ resp'[c].status = 401 => resp'[c].body = UnauthorizedText
                /\ resp'[c].status = 400 => resp'[c].body = NoInputText
                /\ resp'[c].status \in {400, 401} =>
                    /\ pc'[c] = "idle"
                    /\ messages' = messages
                    /\ turns_left' = turns_left]_vars

\* bob registered and logged in from nothing, and his turn has appended his
\* utterance to the memory
C18_Witness ==
    \E c \in Clients :
        /\ pc[c] = "invoke"
        /\ session[c] = "bob"
        /\ login_ok[c]
        /\ messages = <<HumanMessage(UtteranceText, c)>>

\* the last 2k messages of the store, whoever appended them
LastOfStore ==
    SubSeq(messages,
           IF Len(messages) > 2 * k THEN Len(messages) - 2 * k + 1 ELSE 1,
           Len(messages))

\* C19: a step that changes the username of a session (a login or a logout)
\* changes nothing else of the program: the memory, the users table and every
\* turn are as they were. So the messages of one user's turns stay in the
\* memory, and the history the loop reads in a later turn is the last 2k
\* messages of the store, whichever users' turns appended them.
C19_LoginLogoutLeaveMemory ==
    /\ [][(session' # session \/ login_ok' # login_ok) =>
            /\ messages' = messages
            /\ users' = users
            /\ pc' = pc
            /\ user_input' = user_input
            /\ TurnLocals' = TurnLocals]_vars
    /\ [](\A c \in Clients : pc[c] = "loop" => chat_history[c] = LastOfStore)

\* with one request served at a time, the history of a user's turn holds a
\* message of a turn of another user
C19_Witness ==
    \E c \in Clients :
        /\ workers = 1
        /\ pc[c] = "loop"
        /\ session[c] \in Usernames
        /\ \E i \in 1..Len(chat_history[c]) :
            /\ chat_history[c][i].user \in Usernames
            /\ chat_history[c][i].user # session[c]

=============================================================================
